---- MODULE Spec2Model ----
(***************************************************************************)
(* Model of the cendre backend: the Secret entity, the SecretStore         *)
(* abstraction with its two backends (InMemorySecretStore and              *)
(* RedisSecretStore), and the API handler that renders a lookup.           *)
(*                                                                         *)
(* Time is a discrete clock `now`; it may advance between any two steps.   *)
(* Every `.await` of the source is a step boundary: other tasks and the    *)
(* clock may run there.  Code between two awaits is one step.              *)
(* Identifiers (Uuid::new_v4) are modelled as never-repeating values.      *)
(***************************************************************************)
EXTENDS Integers, Sequences, FiniteSets, TLC

\* ------------------------------------------------------------------ bounds
NumTasks == 2
MaxTime == 2
MaxTtl == 2
MaxSecrets == 2
MaxCalls == 4
MaxFails == 1
NumInstances == 2
RlMaxTime == 4
MaxLimit == 2
MaxWindow == 2
MaxChecks == 5
MaxRequests == 3
\* RateLimiter::new(60, Duration::from_secs(60)) of the library router.
ApiLimit == 60
ApiWindow == 60
\* 24 * 60 * 60
TTL_MAX == 86400

Tasks == 1..NumTasks
Ttls == 1..MaxTtl
Instances == 1..NumInstances
\* An id that no store_secret call ever generates.
MissingId == MaxSecrets + 1
Payloads == {<<"ct1", "iv1">>, <<"ct2", "iv2">>}
Backends == {"mem", "redis"}
\* rate_limit_identity: the fallback identity, and one client address.
Identities == {"global", "10.0.0.1"}

VARIABLES
    now,        \* the wall clock (OffsetDateTime::now_utc)
    backend,    \* which SecretStore variant AppState.store holds
    inner,      \* InMemorySecretStore.inner: id -> Secret
    innerLock,  \* holders of the RwLock write guard of `inner`
    redis,      \* the Redis keyspace: key -> [json, expire_at]
    connLock,   \* RedisSecretStore.connection mutex holders, per store instance
    pc,         \* where each task is inside its current call
    cur,        \* the locals of each task's current call
    instOf,     \* the RedisSecretStore instance each task calls through
    stored,     \* id -> the Secret that a store_secret call returned to its caller
    reads,      \* id -> what the get_and_delete_secret calls on it returned so far
    last,       \* the call that returned most recently
    calls,      \* number of calls begun
    nextId,     \* source of fresh ids
    fails,      \* number of Redis commands that failed so far
    router,     \* how calls arrive: "direct", or through the "lib" or "main" router
    limit,      \* RateLimiter.max_requests_per_window
    window,     \* RateLimiter.window
    buckets,    \* RateLimiter.buckets: identity -> RateBucket
    bucketsLock,\* holders of the buckets mutex
    req,        \* the inbound request (or check call) each task is serving
    reqs,       \* number of requests and check calls begun
    admits      \* identity -> the check calls made and allowed so far

apiVars == <<router, limit, window, buckets, bucketsLock, req, reqs, admits>>
vars == <<now, backend, inner, innerLock, redis, connLock, pc, cur, instOf, stored, reads,
          last, calls, nextId, fails, router, limit, window, buckets, bucketsLock, req,
          reqs, admits>>

\* ------------------------------------------------------------------ Option
None == <<>>
Some(x) == <<x>>
IsSome(o) == Len(o) = 1
Unwrap(o) == o[1]

\* Uuid::new_v4 rendered by URL_SAFE_NO_PAD is a random draw; nothing in the
\* code compares it with the ids already in use.  Uuids are the values a draw
\* can give, and SpecDraw lets every store_secret call draw any of them.
\* new_v4(n) is the n-th draw under the assumption that no draw repeats an
\* earlier one, which the other specifications make.
Uuids == 1..MaxSecrets
new_v4(n) == n

\* ------------------------------------------------------------------ models.rs
\* Secret::new, with the clock reading and the generated id passed in.
SecretNew(id, ciphertext, iv, ttl_secs, created_at) ==
    [id |-> id, ciphertext |-> ciphertext, iv |-> iv,
     created_at |-> created_at, ttl_secs |-> ttl_secs, read_at |-> None]

expires_at(secret) == secret.created_at + secret.ttl_secs

is_expired_at_strict(secret, t) == t > expires_at(secret)
is_expired_at_early(secret, t) == t + 1 >= expires_at(secret)
is_expired_at(secret, t) == t >= expires_at(secret)

mark_read(secret, when) == [secret EXCEPT !.read_at = Some(when)]

\* ------------------------------------------------------------------ serde_json
\* The serialized document: an ordered list of (field name, value) pairs.
ToJson(secret) ==
    << <<"id", secret.id>>, <<"ciphertext", secret.ciphertext>>, <<"iv", secret.iv>>,
       <<"created_at", secret.created_at>>, <<"ttl_secs", secret.ttl_secs>>,
       <<"read_at", secret.read_at>> >>

JsonField(json, name) ==
    json[CHOOSE i \in 1..Len(json) : json[i][1] = name][2]

FromJsonSwapped(json) ==
    [id |-> JsonField(json, "id"), ciphertext |-> JsonField(json, "iv"),
     iv |-> JsonField(json, "ciphertext"), created_at |-> JsonField(json, "created_at"),
     ttl_secs |-> JsonField(json, "ttl_secs"), read_at |-> JsonField(json, "read_at")]
FromJson(json) ==
    [id |-> JsonField(json, "id"), ciphertext |-> JsonField(json, "ciphertext"),
     iv |-> JsonField(json, "iv"), created_at |-> JsonField(json, "created_at"),
     ttl_secs |-> JsonField(json, "ttl_secs"), read_at |-> JsonField(json, "read_at")]

\* ------------------------------------------------------------------ results
Ok(v) == [tag |-> "Ok", val |-> v]
Err == [tag |-> "Err", val |-> None]

\* ------------------------------------------------------------------ Redis
KeyPrefix == "secret:"
make_key(id) == <<KeyPrefix, id>>

\* GET: the value of a key that exists and whose expiry has not passed.
RedisLive(key) == key \in DOMAIN redis /\ now < redis[key].expire_at
RedisGet(key) == IF RedisLive(key) THEN Some(redis[key].json) ELSE None
\* SET key value EX seconds: the expiry counts from the moment the command runs.
RedisSetEx(key, json, seconds) ==
    [k \in DOMAIN redis \cup {key} |->
        IF k = key THEN [json |-> json, expire_at |-> now + seconds] ELSE redis[k]]
RedisDelNothing(key) == redis
RedisDel(key) == [k \in DOMAIN redis \ {key} |-> redis[k]]

\* ------------------------------------------------------------------ bookkeeping
Idle == [op |-> "none"]
NoRequest == [kind |-> "none"]
NoCall == [op |-> "none"]
NoReads == [returned |-> 0, oks |-> 0, somes |-> 0, late |-> FALSE, raced |-> FALSE,
            via |-> "none"]
\* The store a task calls: the one AppState.store holds, or, when an
\* InMemorySecretStore and a RedisSecretStore stand side by side, the first
\* for task 1 and the second for every other task.
UsesMem(t) == backend = "mem" \/ (backend = "both" /\ t = 1)
UsesRedis(t) == backend = "redis" \/ (backend = "both" /\ t # 1)
\* A store call begins from an idle caller, or from the handler of a request.
CanBegin(t) == pc[t] = (IF router = "direct" THEN "idle" ELSE "handler") /\ calls < MaxCalls

\* Ids handed to a caller by a store_secret call that returned Ok.
StoredIds == DOMAIN stored
LookupIds == StoredIds \cup {MissingId}
ReadsOf(id) == IF id \in DOMAIN reads THEN reads[id] ELSE NoReads
\* Tasks inside a get_and_delete_secret call on id.
Getting(id) == {t \in Tasks : pc[t] # "idle" /\ cur[t].op = "get" /\ cur[t].id = id}

\* What holds when a get_and_delete_secret call on id begins: whether an
\* earlier call on the id has already returned the secret, whether one has
\* returned at all without error, and whether the secret has already expired.
GetLocals(t, id) ==
    [op |-> "get", id |-> id,
     seenSome |-> ReadsOf(id).somes > 0,
     seenOk |-> ReadsOf(id).oks > 0,
     seenExpired |-> id \in StoredIds /\ is_expired_at(stored[id], now)]

MarkRaced(t, id) ==
    IF Getting(id) # {}
    THEN reads' = [k \in DOMAIN reads \cup {id} |->
                    IF k = id THEN [ReadsOf(id) EXCEPT !.raced = TRUE] ELSE reads[k]]
    ELSE UNCHANGED reads

\* A store_secret call returns res.
ReturnStore(t, res) ==
    /\ stored' = IF res.tag = "Ok"
                 THEN [k \in DOMAIN stored \cup {cur[t].id} |->
                        IF k = cur[t].id THEN Unwrap(res.val) ELSE stored[k]]
                 ELSE stored
    /\ last' = [op |-> "store", id |-> cur[t].id, res |-> res, at |-> now]
    /\ pc' = [pc EXCEPT ![t] = "idle"]
    /\ cur' = [cur EXCEPT ![t] = Idle]
    /\ UNCHANGED reads

\* A get_and_delete_secret call returns res; `at` is the clock reading at which
\* the lookup was decided.
ReturnGet(t, res, at) ==
    LET id == cur[t].id
        r == ReadsOf(id)
        known == id \in StoredIds
    IN /\ reads' = [k \in DOMAIN reads \cup {id} |->
                      IF k = id
                      THEN [returned |-> r.returned + 1,
                            somes |-> r.somes + (IF res.tag = "Ok" /\ IsSome(res.val) THEN 1 ELSE 0),
                            oks |-> r.oks + (IF res.tag = "Ok" THEN 1 ELSE 0),
                            late |-> r.late \/ (known /\ at >= expires_at(stored[id])),
                            raced |-> r.raced,
                            via |-> IF pc[t] = "m_get_cs" THEN "mem" ELSE "redis"]
                      ELSE reads[k]]
       /\ last' = [op |-> "get", id |-> id, res |-> res, at |-> at,
                   seenSome |-> cur[t].seenSome, seenOk |-> cur[t].seenOk,
                   seenExpired |-> cur[t].seenExpired, returnedBefore |-> r.returned]
       /\ pc' = [pc EXCEPT ![t] = "idle"]
       /\ cur' = [cur EXCEPT ![t] = Idle]
       /\ UNCHANGED stored

\* The request of a task whose store call has returned is answered; the
\* limiter is untouched.
RequestAnswered ==
    /\ req' = [t \in Tasks |-> IF pc'[t] = "idle" THEN NoRequest ELSE req[t]]
    /\ UNCHANGED <<router, limit, window, buckets, bucketsLock, reqs, admits>>

Init ==
    /\ now = 0
    /\ backend \in Backends
    /\ inner = <<>>
    /\ innerLock = {}
    /\ redis = <<>>
    /\ connLock = [i \in Instances |-> {}]
    /\ pc = [t \in Tasks |-> "idle"]
    /\ cur = [t \in Tasks |-> Idle]
    /\ instOf = [t \in Tasks |-> 1]
    /\ stored = <<>>
    /\ reads = <<>>
    /\ last = NoCall
    /\ calls = 0
    /\ nextId = 1
    /\ fails = 0
    /\ router = "direct"
    /\ limit = 1
    /\ window = 1
    /\ buckets = <<>>
    /\ bucketsLock = {}
    /\ req = [t \in Tasks |-> NoRequest]
    /\ reqs = 0
    /\ admits = <<>>

Tick ==
    /\ now < MaxTime
    /\ now' = now + 1
    /\ last' = NoCall
    /\ UNCHANGED <<backend, inner, innerLock, redis, connLock, pc, cur, instOf, stored,
                   reads, calls, nextId, fails>>
    /\ UNCHANGED apiVars

\* ------------------------------------------------------------------ InMemorySecretStore
\* store_secret, up to the await of the write lock: Secret::new, whose
\* Uuid::new_v4 gives id.
MemStoreCall(t, payload, ttl_secs, id) ==
    /\ UsesMem(t)
    /\ CanBegin(t)
    /\ nextId <= MaxSecrets
    /\ cur' = [cur EXCEPT ![t] =
                [op |-> "store", id |-> id,
                 secret |-> SecretNew(id, payload[1], payload[2], ttl_secs, now)]]
    /\ nextId' = nextId + 1
    /\ calls' = calls + 1
    /\ pc' = [pc EXCEPT ![t] = "m_store_lock"]
    /\ last' = NoCall
    /\ UNCHANGED <<now, backend, inner, innerLock, redis, connLock, instOf, stored, reads,
                   fails>>
    /\ UNCHANGED apiVars

\* store_secret whose draw repeats no earlier one.
MemStoreBegin(t, payload, ttl_secs) == MemStoreCall(t, payload, ttl_secs, new_v4(nextId))

\* self.inner.write().await is granted.
MemStoreLock(t) ==
    /\ pc[t] = "m_store_lock"
    /\ innerLock = {}
    /\ innerLock' = {t}
    /\ pc' = [pc EXCEPT ![t] = "m_store_cs"]
    /\ last' = NoCall
    /\ UNCHANGED <<now, backend, inner, redis, connLock, cur, instOf, stored, reads, calls, nextId, fails>>
    /\ UNCHANGED apiVars

\* guard.insert(id, secret.clone()); Ok(secret); the guard drops.
MemStoreInsert(t) ==
    /\ pc[t] = "m_store_cs"
    /\ inner' = [k \in DOMAIN inner \cup {cur[t].id} |->
                    IF k = cur[t].id THEN cur[t].secret ELSE inner[k]]
    /\ innerLock' = {}
    /\ ReturnStore(t, Ok(Some(cur[t].secret)))
    /\ UNCHANGED <<now, backend, redis, connLock, instOf, calls, nextId, fails>>
    /\ RequestAnswered

\* get_and_delete_secret is called.
MemGetBegin(t, id) ==
    /\ UsesMem(t)
    /\ CanBegin(t)
    /\ id \in LookupIds
    /\ cur' = [cur EXCEPT ![t] = GetLocals(t, id)]
    /\ MarkRaced(t, id)
    /\ calls' = calls + 1
    /\ pc' = [pc EXCEPT ![t] = "m_get_lock"]
    /\ last' = NoCall
    /\ UNCHANGED <<now, backend, inner, innerLock, redis, connLock, instOf, stored, nextId, fails>>
    /\ UNCHANGED apiVars

\* self.inner.write().await is granted.
MemGetLock(t) ==
    /\ pc[t] = "m_get_lock"
    /\ innerLock = {}
    /\ innerLock' = {t}
    /\ pc' = [pc EXCEPT ![t] = "m_get_cs"]
    /\ last' = NoCall
    /\ UNCHANGED <<now, backend, inner, redis, connLock, cur, instOf, stored, reads, calls, nextId, fails>>
    /\ UNCHANGED apiVars

\* What the call returns for the entry it removed (None when there was none).
MemGetOutcomeReturnsExpired(maybe_secret, t) ==
    IF IsSome(maybe_secret)
    THEN Ok(Some(mark_read(Unwrap(maybe_secret), t)))
    ELSE Ok(None)
MemGetOutcome(maybe_secret, t) ==
    IF IsSome(maybe_secret)
    THEN IF is_expired_at(Unwrap(maybe_secret), t)
         THEN Ok(None)
         ELSE Ok(Some(mark_read(Unwrap(maybe_secret), t)))
    ELSE Ok(None)

\* The map after guard.remove(id).
MemRemoveKeeps(map, id) == map
MemRemoveKeepsExpired(map, id) ==
    IF id \in DOMAIN map /\ is_expired_at(map[id], now) THEN map
    ELSE [k \in DOMAIN map \ {id} |-> map[k]]
MemRemove(map, id) == [k \in DOMAIN map \ {id} |-> map[k]]

\* guard.remove(id), the expiry check, mark_read, the return; the guard drops.
MemGetRemoveKeepsGuard(t) ==
    /\ pc[t] = "m_get_cs"
    /\ LET id == cur[t].id
           maybe_secret == IF id \in DOMAIN inner THEN Some(inner[id]) ELSE None
       IN /\ inner' = MemRemove(inner, id)
          /\ ReturnGet(t, MemGetOutcome(maybe_secret, now), now)
          /\ innerLock' = IF IsSome(maybe_secret) /\ is_expired_at(Unwrap(maybe_secret), now)
                          THEN innerLock ELSE {}
    /\ UNCHANGED <<now, backend, redis, connLock, instOf, calls, nextId, fails>>
    /\ RequestAnswered
MemGetRemove(t) ==
    /\ pc[t] = "m_get_cs"
    /\ LET id == cur[t].id
           maybe_secret == IF id \in DOMAIN inner THEN Some(inner[id]) ELSE None
       IN /\ inner' = MemRemove(inner, id)
          /\ ReturnGet(t, MemGetOutcome(maybe_secret, now), now)
    /\ innerLock' = {}
    /\ UNCHANGED <<now, backend, redis, connLock, instOf, calls, nextId, fails>>
    /\ RequestAnswered

\* ping: there is nothing to verify; Ok(()) without an await.
MemPing(t) ==
    /\ UsesMem(t)
    /\ router = "direct"
    /\ pc[t] = "idle"
    /\ calls < MaxCalls
    /\ calls' = calls + 1
    /\ last' = [op |-> "ping", res |-> Ok(None), at |-> now]
    /\ UNCHANGED <<now, backend, inner, innerLock, redis, connLock, pc, cur, instOf, stored,
                   reads, nextId, fails>>
    /\ UNCHANGED apiVars

\* ------------------------------------------------------------------ RedisSecretStore
\* store_secret, up to the await of the connection lock: Secret::new (whose
\* Uuid::new_v4 gives id), make_key, to_string.
RedisStoreCall(t, payload, ttl_secs, id) ==
    /\ UsesRedis(t)
    /\ CanBegin(t)
    /\ nextId <= MaxSecrets
    /\ LET secret == SecretNew(id, payload[1], payload[2], ttl_secs, now)
       IN cur' = [cur EXCEPT ![t] =
                [op |-> "store", id |-> id, secret |-> secret,
                 key |-> make_key(id), json |-> ToJson(secret)]]
    /\ nextId' = nextId + 1
    /\ calls' = calls + 1
    /\ pc' = [pc EXCEPT ![t] = "r_store_lock"]
    /\ last' = NoCall
    /\ UNCHANGED <<now, backend, inner, innerLock, redis, connLock, instOf, stored, reads,
                   fails>>
    /\ UNCHANGED apiVars

\* store_secret whose draw repeats no earlier one.
RedisStoreBegin(t, payload, ttl_secs) ==
    RedisStoreCall(t, payload, ttl_secs, new_v4(nextId))

\* self.connection.lock().await is granted.
RedisStoreLock(t) ==
    /\ pc[t] = "r_store_lock"
    /\ connLock[instOf[t]] = {}
    /\ connLock' = [connLock EXCEPT ![instOf[t]] = {t}]
    /\ pc' = [pc EXCEPT ![t] = "r_store_set"]
    /\ last' = NoCall
    /\ UNCHANGED <<now, backend, inner, innerLock, redis, cur, instOf, stored, reads, calls, nextId, fails>>
    /\ UNCHANGED apiVars

\* conn.set_ex(key, json, ttl_secs) answers OK; Ok(secret); the guard drops.
RedisStoreSet(t) ==
    /\ pc[t] = "r_store_set"
    /\ redis' = RedisSetEx(cur[t].key, cur[t].json, cur[t].secret.ttl_secs)
    /\ connLock' = [connLock EXCEPT ![instOf[t]] = {}]
    /\ ReturnStore(t, Ok(Some(cur[t].secret)))
    /\ UNCHANGED <<now, backend, inner, innerLock, instOf, calls, nextId, fails>>
    /\ RequestAnswered

\* conn.set_ex fails: `?` returns the error.  The command either never ran
\* or ran with its reply lost.
RedisStoreSetFails(t, ran) ==
    /\ pc[t] = "r_store_set"
    /\ fails < MaxFails
    /\ fails' = fails + 1
    /\ redis' = IF ran THEN RedisSetEx(cur[t].key, cur[t].json, cur[t].secret.ttl_secs)
                ELSE redis
    /\ connLock' = [connLock EXCEPT ![instOf[t]] = {}]
    /\ ReturnStore(t, Err)
    /\ UNCHANGED <<now, backend, inner, innerLock, instOf, calls, nextId>>
    /\ RequestAnswered

\* get_and_delete_secret is called: make_key.
RedisGetBegin(t, id) ==
    /\ UsesRedis(t)
    /\ CanBegin(t)
    /\ id \in LookupIds
    /\ cur' = [cur EXCEPT ![t] = [l \in {"key"} \cup DOMAIN GetLocals(t, id) |->
                                    IF l = "key" THEN make_key(id) ELSE GetLocals(t, id)[l]]]
    /\ MarkRaced(t, id)
    /\ calls' = calls + 1
    /\ pc' = [pc EXCEPT ![t] = "r_get_lock"]
    /\ last' = NoCall
    /\ UNCHANGED <<now, backend, inner, innerLock, redis, connLock, instOf, stored, nextId, fails>>
    /\ UNCHANGED apiVars

RedisGetLockNoExclusion(t) ==
    /\ pc[t] = "r_get_lock"
    /\ connLock' = [connLock EXCEPT ![instOf[t]] = {t}]
    /\ pc' = [pc EXCEPT ![t] = "r_get_get"]
    /\ last' = NoCall
    /\ UNCHANGED <<now, backend, inner, innerLock, redis, cur, instOf, stored, reads,
                   calls, nextId, fails>>
    /\ UNCHANGED apiVars
\* self.connection.lock().await is granted.
RedisGetLock(t) ==
    /\ pc[t] = "r_get_lock"
    /\ connLock[instOf[t]] = {}
    /\ connLock' = [connLock EXCEPT ![instOf[t]] = {t}]
    /\ pc' = [pc EXCEPT ![t] = "r_get_get"]
    /\ last' = NoCall
    /\ UNCHANGED <<now, backend, inner, innerLock, redis, cur, instOf, stored, reads, calls, nextId, fails>>
    /\ UNCHANGED apiVars

\* conn.get(&key) answers.  Some(json): from_str, mark_read, then the await of
\* DEL.  None: Ok(None); the guard drops.
RedisGetGet(t) ==
    /\ pc[t] = "r_get_get"
    /\ LET json == RedisGet(cur[t].key)
       IN IF IsSome(json)
          THEN /\ cur' = [cur EXCEPT ![t] =
                           [l \in {"secret"} \cup DOMAIN cur[t] |->
                              IF l = "secret" THEN mark_read(FromJson(Unwrap(json)), now)
                              ELSE cur[t][l]]]
               /\ pc' = [pc EXCEPT ![t] = "r_get_del"]
               /\ last' = NoCall
               /\ UNCHANGED <<connLock, stored, reads>>
          ELSE /\ connLock' = [connLock EXCEPT ![instOf[t]] = {}]
               /\ ReturnGet(t, Ok(None), now)
    /\ UNCHANGED <<now, backend, inner, innerLock, redis, instOf, calls, nextId, fails>>
    /\ RequestAnswered

\* conn.get fails: `?` returns the error; the guard drops.
RedisGetGetFails(t) ==
    /\ pc[t] = "r_get_get"
    /\ fails < MaxFails
    /\ fails' = fails + 1
    /\ connLock' = [connLock EXCEPT ![instOf[t]] = {}]
    /\ ReturnGet(t, Err, now)
    /\ UNCHANGED <<now, backend, inner, innerLock, redis, instOf, calls, nextId>>
    /\ RequestAnswered

\* conn.del(&key) answers; Ok(Some(secret)); the guard drops.
RedisGetDel(t) ==
    /\ pc[t] = "r_get_del"
    /\ redis' = RedisDel(cur[t].key)
    /\ connLock' = [connLock EXCEPT ![instOf[t]] = {}]
    /\ ReturnGet(t, Ok(Some(cur[t].secret)), Unwrap(cur[t].secret.read_at))
    /\ UNCHANGED <<now, backend, inner, innerLock, instOf, calls, nextId, fails>>
    /\ RequestAnswered

\* conn.del fails: `?` returns the error and the record is dropped.  The
\* command either never ran or ran with its reply lost.
RedisGetDelFails(t, ran) ==
    /\ pc[t] = "r_get_del"
    /\ fails < MaxFails
    /\ fails' = fails + 1
    /\ redis' = IF ran THEN RedisDel(cur[t].key) ELSE redis
    /\ connLock' = [connLock EXCEPT ![instOf[t]] = {}]
    /\ ReturnGet(t, Err, Unwrap(cur[t].secret.read_at))
    /\ UNCHANGED <<now, backend, inner, innerLock, instOf, calls, nextId>>
    /\ RequestAnswered

\* ping is called: it awaits the connection lock first.
RedisPingBegin(t) ==
    /\ UsesRedis(t)
    /\ router = "direct"
    /\ pc[t] = "idle"
    /\ calls < MaxCalls
    /\ cur' = [cur EXCEPT ![t] = [op |-> "ping"]]
    /\ calls' = calls + 1
    /\ pc' = [pc EXCEPT ![t] = "r_ping_lock"]
    /\ last' = NoCall
    /\ UNCHANGED <<now, backend, inner, innerLock, redis, connLock, instOf, stored, reads,
                   nextId, fails>>
    /\ UNCHANGED apiVars

\* self.connection.lock().await is granted; PING is sent.
RedisPingLock(t) ==
    /\ pc[t] = "r_ping_lock"
    /\ connLock[instOf[t]] = {}
    /\ connLock' = [connLock EXCEPT ![instOf[t]] = {t}]
    /\ pc' = [pc EXCEPT ![t] = "r_ping"]
    /\ last' = NoCall
    /\ UNCHANGED <<now, backend, inner, innerLock, redis, cur, instOf, stored, reads, calls,
                   nextId, fails>>
    /\ UNCHANGED apiVars

\* PING is answered (res = Ok(())) or fails (`?` returns the error, at most
\* MaxFails times); the guard drops.
RedisPingAnswer(t, res) ==
    /\ pc[t] = "r_ping"
    /\ res.tag = "Err" => fails < MaxFails
    /\ fails' = IF res.tag = "Err" THEN fails + 1 ELSE fails
    /\ connLock' = [connLock EXCEPT ![instOf[t]] = {}]
    /\ last' = [op |-> "ping", res |-> res, at |-> now]
    /\ pc' = [pc EXCEPT ![t] = "idle"]
    /\ cur' = [cur EXCEPT ![t] = Idle]
    /\ UNCHANGED <<now, backend, inner, innerLock, redis, instOf, stored, reads, calls, nextId>>
    /\ UNCHANGED apiVars

\* ------------------------------------------------------------------ lib.rs
\* ApiError::into_response: status and error body.
ApiErrorResponse(err) ==
    IF err = "NotFound" THEN [status |-> 404, error |-> "secret not found"]
    ELSE IF err = "Storage" THEN [status |-> 500, error |-> "internal storage error"]
    ELSE [status |-> 400, error |-> err]

\* get_secret: the response rendered for the result of get_and_delete_secret.
get_secret_no_collapse(id, res) ==
    IF res.tag = "Err" THEN ApiErrorResponse("Storage")
    ELSE IF IsSome(res.val)
    THEN [status |-> 200, id |-> Unwrap(res.val).id,
          ciphertext |-> Unwrap(res.val).ciphertext, iv |-> Unwrap(res.val).iv,
          ttl_secs |-> Unwrap(res.val).ttl_secs]
    ELSE IF id \in StoredIds THEN [status |-> 410, error |-> "secret gone"]
    ELSE ApiErrorResponse("NotFound")
get_secret(id, res) ==
    IF res.tag = "Err" THEN ApiErrorResponse("Storage")
    ELSE IF IsSome(res.val)
    THEN [status |-> 200, id |-> Unwrap(res.val).id,
          ciphertext |-> Unwrap(res.val).ciphertext, iv |-> Unwrap(res.val).iv,
          ttl_secs |-> Unwrap(res.val).ttl_secs]
    ELSE ApiErrorResponse("NotFound")

\* ------------------------------------------------------------------ specification
Next ==
    \/ Tick
    \/ \E t \in Tasks, p \in Payloads, ttl \in Ttls : MemStoreBegin(t, p, ttl)
    \/ \E t \in Tasks : MemStoreLock(t)
    \/ \E t \in Tasks : MemStoreInsert(t)
    \/ \E t \in Tasks, id \in 1..MissingId : MemGetBegin(t, id)
    \/ \E t \in Tasks : MemGetLock(t)
    \/ \E t \in Tasks : MemGetRemove(t)
    \/ \E t \in Tasks : MemPing(t)
    \/ \E t \in Tasks, p \in Payloads, ttl \in Ttls : RedisStoreBegin(t, p, ttl)
    \/ \E t \in Tasks : RedisStoreLock(t)
    \/ \E t \in Tasks : RedisStoreSet(t)
    \/ \E t \in Tasks, ran \in BOOLEAN : RedisStoreSetFails(t, ran)
    \/ \E t \in Tasks, id \in 1..MissingId : RedisGetBegin(t, id)
    \/ \E t \in Tasks : RedisGetLock(t)
    \/ \E t \in Tasks : RedisGetGet(t)
    \/ \E t \in Tasks : RedisGetGetFails(t)
    \/ \E t \in Tasks : RedisGetDel(t)
    \/ \E t \in Tasks, ran \in BOOLEAN : RedisGetDelFails(t, ran)
    \/ \E t \in Tasks : RedisPingBegin(t)
    \/ \E t \in Tasks : RedisPingLock(t)
    \/ \E t \in Tasks, res \in {Ok(None), Err} : RedisPingAnswer(t, res)

Spec == Init /\ [][Next]_vars

\* ------------------------------------------------------------------ random ids
\* The stores called directly, every Uuid::new_v4 being a draw from Uuids.
NextDraw ==
    \/ Tick
    \/ \E t \in Tasks, p \in Payloads, ttl \in Ttls, id \in Uuids : MemStoreCall(t, p, ttl, id)
    \/ \E t \in Tasks : MemStoreLock(t)
    \/ \E t \in Tasks : MemStoreInsert(t)
    \/ \E t \in Tasks, id \in 1..MissingId : MemGetBegin(t, id)
    \/ \E t \in Tasks : MemGetLock(t)
    \/ \E t \in Tasks : MemGetRemove(t)
    \/ \E t \in Tasks : MemPing(t)
    \/ \E t \in Tasks, p \in Payloads, ttl \in Ttls, id \in Uuids : RedisStoreCall(t, p, ttl, id)
    \/ \E t \in Tasks : RedisStoreLock(t)
    \/ \E t \in Tasks : RedisStoreSet(t)
    \/ \E t \in Tasks, ran \in BOOLEAN : RedisStoreSetFails(t, ran)
    \/ \E t \in Tasks, id \in 1..MissingId : RedisGetBegin(t, id)
    \/ \E t \in Tasks : RedisGetLock(t)
    \/ \E t \in Tasks : RedisGetGet(t)
    \/ \E t \in Tasks : RedisGetGetFails(t)
    \/ \E t \in Tasks : RedisGetDel(t)
    \/ \E t \in Tasks, ran \in BOOLEAN : RedisGetDelFails(t, ran)
    \/ \E t \in Tasks : RedisPingBegin(t)
    \/ \E t \in Tasks : RedisPingLock(t)
    \/ \E t \in Tasks, res \in {Ok(None), Err} : RedisPingAnswer(t, res)

SpecDraw == Init /\ [][NextDraw]_vars

\* ------------------------------------------------------------------ both backends side by side
\* An InMemorySecretStore and a RedisSecretStore in one process: task 1 calls
\* the first, every other task the second, each call running as it does on
\* its store alone.
InitEq ==
    /\ now = 0
    /\ backend = "both"
    /\ inner = <<>>
    /\ innerLock = {}
    /\ redis = <<>>
    /\ connLock = [i \in Instances |-> {}]
    /\ pc = [t \in Tasks |-> "idle"]
    /\ cur = [t \in Tasks |-> Idle]
    /\ instOf = [t \in Tasks |-> 1]
    /\ stored = <<>>
    /\ reads = <<>>
    /\ last = NoCall
    /\ calls = 0
    /\ nextId = 1
    /\ fails = 0
    /\ router = "direct"
    /\ limit = 1
    /\ window = 1
    /\ buckets = <<>>
    /\ bucketsLock = {}
    /\ req = [t \in Tasks |-> NoRequest]
    /\ reqs = 0
    /\ admits = <<>>

SpecEq == InitEq /\ [][Next]_vars

\* ------------------------------------------------------------------ RateLimiter
\* buckets.entry(identity).or_insert(RateBucket { window_start: now, count: 0 })
BucketOrInsertOverwrites(bs, identity, t) == [window_start |-> t, count |-> 0]
BucketOrInsert(bs, identity, t) ==
    IF identity \in DOMAIN bs THEN bs[identity] ELSE [window_start |-> t, count |-> 0]

\* now.duration_since(bucket.window_start) > self.window
WindowElapsedAtBoundary(bucket, t) == t - bucket.window_start >= window
WindowElapsed(bucket, t) == t - bucket.window_start > window

\* The bucket after the reset test.
ResetIfElapsed(bucket, t) ==
    IF WindowElapsed(bucket, t) THEN [window_start |-> t, count |-> 0] ELSE bucket

\* The test that denies: bucket.count >= self.max_requests_per_window.
ExhaustedLate(bucket) == bucket.count > limit
Exhausted(bucket) == bucket.count >= limit

\* bucket.count += 1
CountedForgets(bucket) == bucket
Counted(bucket) == [bucket EXCEPT !.count = bucket.count + 1]

\* The body of check under the lock: the answer and the bucket it leaves.
CheckOutcomeCountsDenied(bs, identity, t) ==
    LET bucket == ResetIfElapsed(BucketOrInsert(bs, identity, t), t)
    IN [allowed |-> ~Exhausted(bucket), bucket |-> Counted(bucket)]
CheckOutcome(bs, identity, t) ==
    LET bucket == ResetIfElapsed(BucketOrInsert(bs, identity, t), t)
    IN IF Exhausted(bucket) THEN [allowed |-> FALSE, bucket |-> bucket]
       ELSE [allowed |-> TRUE, bucket |-> Counted(bucket)]

RlTimes == 0..RlMaxTime
NoAdmits == [n |-> 0, first |-> 0, batch |-> 0, at |-> [x \in RlTimes |-> 0]]
AdmitsOf(identity) == IF identity \in DOMAIN admits THEN admits[identity] ELSE NoAdmits

\* The step of check under the lock, for the task's identity: the map is
\* updated, the guard drops.
CheckStepOneBucket(t) ==
    LET out == CheckOutcome(buckets, req[t].identity, now)
    IN /\ buckets' = [k \in Identities |-> out.bucket]
       /\ bucketsLock' = {}
CheckStepKeepsLock(t) ==
    LET identity == req[t].identity
        out == CheckOutcome(buckets, identity, now)
    IN /\ buckets' = [k \in DOMAIN buckets \cup {identity} |->
                        IF k = identity THEN out.bucket ELSE buckets[k]]
       /\ bucketsLock' = bucketsLock
CheckStep(t) ==
    LET identity == req[t].identity
        out == CheckOutcome(buckets, identity, now)
    IN /\ buckets' = [k \in DOMAIN buckets \cup {identity} |->
                        IF k = identity THEN out.bucket ELSE buckets[k]]
       /\ bucketsLock' = {}

\* The tasks inside a check call for the identity.
Checking(identity) ==
    {t \in Tasks : pc[t] \in {"rl_lock", "rl_cs"} /\ req[t].identity = identity}

\* The checks of each identity so far: how many, when the first one was, how
\* many calls were in progress together when the first one returned, and how
\* many were allowed at each time.
CountCheck(t) ==
    LET identity == req[t].identity
        out == CheckOutcome(buckets, identity, now)
        a == AdmitsOf(identity)
    IN admits' = [k \in DOMAIN admits \cup {identity} |->
                    IF k = identity
                    THEN [n |-> a.n + 1,
                          first |-> IF a.n = 0 THEN now ELSE a.first,
                          batch |-> IF a.n = 0 THEN Cardinality(Checking(identity))
                                    ELSE a.batch,
                          at |-> IF out.allowed
                                 THEN [a.at EXCEPT ![now] = a.at[now] + 1]
                                 ELSE a.at]
                    ELSE admits[k]]

\* What a check call that returns has seen and done.
CheckRecord(t) ==
    LET identity == req[t].identity
        out == CheckOutcome(buckets, identity, now)
        a == AdmitsOf(identity)
    IN [op |-> "check", identity |-> identity, allowed |-> out.allowed,
        at |-> now, nth |-> a.n + 1,
        first |-> IF a.n = 0 THEN now ELSE a.first, had |-> identity \in DOMAIN buckets,
        pre |-> BucketOrInsert(buckets, identity, now), post |-> out.bucket]

InitRL ==
    /\ now = 0
    /\ backend = "mem"
    /\ inner = <<>>
    /\ innerLock = {}
    /\ redis = <<>>
    /\ connLock = [i \in Instances |-> {}]
    /\ pc = [t \in Tasks |-> "idle"]
    /\ cur = [t \in Tasks |-> Idle]
    /\ instOf = [t \in Tasks |-> 1]
    /\ stored = <<>>
    /\ reads = <<>>
    /\ last = NoCall
    /\ calls = 0
    /\ nextId = 1
    /\ fails = 0
    /\ router = "check"
    /\ limit \in 1..MaxLimit
    /\ window \in 1..MaxWindow
    /\ buckets = <<>>
    /\ bucketsLock = {}
    /\ req = [t \in Tasks |-> NoRequest]
    /\ reqs = 0
    /\ admits = <<>>

storeVars == <<backend, inner, innerLock, redis, connLock, cur, instOf, stored, reads,
               calls, nextId, fails>>

\* Instant::now advances.
RlTick ==
    /\ router = "check"
    /\ now < RlMaxTime
    /\ now' = now + 1
    /\ last' = NoCall
    /\ UNCHANGED <<pc, storeVars, apiVars>>

\* check(identity) is called.
RlCall(t, identity) ==
    /\ router = "check"
    /\ pc[t] = "idle"
    /\ reqs < MaxChecks
    /\ reqs' = reqs + 1
    /\ req' = [req EXCEPT ![t] = [kind |-> "check", identity |-> identity]]
    /\ pc' = [pc EXCEPT ![t] = "rl_lock"]
    /\ last' = NoCall
    /\ UNCHANGED <<now, storeVars, router, limit, window, buckets, bucketsLock, admits>>

\* self.buckets.lock().await is granted.
RlLock(t) ==
    /\ pc[t] = "rl_lock"
    /\ bucketsLock = {}
    /\ bucketsLock' = {t}
    /\ pc' = [pc EXCEPT ![t] = "rl_cs"]
    /\ last' = NoCall
    /\ UNCHANGED <<now, storeVars, router, limit, window, buckets, req, reqs, admits>>

\* The body of check; the call returns to its caller.
RlCheck(t) ==
    /\ router = "check"
    /\ pc[t] = "rl_cs"
    /\ CheckStep(t)
    /\ CountCheck(t)
    /\ last' = CheckRecord(t)
    /\ pc' = [pc EXCEPT ![t] = "idle"]
    /\ req' = [req EXCEPT ![t] = NoRequest]
    /\ UNCHANGED <<now, storeVars, router, limit, window, reqs>>

NextRL ==
    \/ RlTick
    \/ \E t \in Tasks, identity \in Identities : RlCall(t, identity)
    \/ \E t \in Tasks : RlLock(t)
    \/ \E t \in Tasks : RlCheck(t)

SpecRL == InitRL /\ [][NextRL]_vars

\* ------------------------------------------------------------------ the routers
\* app_router_with_state (lib.rs) layers rate_limit_middleware over its three
\* routes; main (main.rs) builds the same routes with no layer.
Routers == {"lib", "main"}

\* s.trim().is_empty(), over the strings the requests carry.
BlankStrings == {"", " "}
is_blank(s) == s \in BlankStrings

ApiPayloads == Payloads \cup {<<" ", "iv1">>, <<"ct1", "">>}
ApiTtls == {0, 1, TTL_MAX, TTL_MAX + 1}

\* rate_limit_identity: the routers insert no SocketAddr extension into the
\* requests they serve, so every request is counted under "global".
rate_limit_identity(r) == IF "addr" \in DOMAIN r THEN r.addr ELSE "global"

Requests ==
    [kind : {"create"}, payload : Payloads, ttl_secs : ApiTtls, admitted : {FALSE}]
    \cup [kind : {"create"}, payload : ApiPayloads \ Payloads, ttl_secs : {1},
          admitted : {FALSE}]
    \cup [kind : {"read"}, id : 1..MissingId, admitted : {FALSE}]
    \cup [kind : {"health"}, admitted : {FALSE}]

\* payload.ttl_secs == 0 || payload.ttl_secs > 24 * 60 * 60
TtlOutOfRangeAllowsZero(ttl_secs) == ttl_secs > TTL_MAX
TtlOutOfRange(ttl_secs) == ttl_secs = 0 \/ ttl_secs > TTL_MAX

\* create_secret before store_secret: the BadRequest it returns, or "ok".
create_secret_validate(r) ==
    IF is_blank(r.payload[1]) \/ is_blank(r.payload[2])
    THEN "ciphertext and iv must be non-empty strings"
    ELSE IF TtlOutOfRange(r.ttl_secs)
    THEN "ttl_secs must be between 1 and 86400 seconds"
    ELSE "ok"

\* create_secret: the response rendered for the result of store_secret.
create_secret(res) ==
    IF res.tag = "Err" THEN ApiErrorResponse("Storage")
    ELSE [status |-> 200, id |-> Unwrap(res.val).id]

\* The response of rate_limit_middleware to a denied request.
TooManyRequests == [status |-> 429, error |-> "too many requests"]

\* tracing events.
LogCreatedWithPayload(secret) ==
    [level |-> "INFO", msg |-> "created secret", secret_id |-> secret.id,
     ttl_secs |-> secret.ttl_secs, ciphertext |-> secret.ciphertext]
LogCreated(secret) ==
    [level |-> "INFO", msg |-> "created secret", secret_id |-> secret.id,
     ttl_secs |-> secret.ttl_secs]
LogRead(secret) == [level |-> "INFO", msg |-> "read secret", secret_id |-> secret.id]
LogNotFound(id) == [level |-> "INFO", msg |-> "secret not found", secret_id |-> id]
LogStorageError == [level |-> "ERROR", msg |-> "storage error: Backend"]
LogRateLimited(identity) ==
    [level |-> "WARN", msg |-> "rate limit exceeded", client |-> identity]

\* The events a handler emits as its store call returns res: the handlers of
\* lib.rs log the outcome, those of main.rs only a storage error.
create_secret_log(r, res) ==
    IF res.tag = "Err" THEN <<LogStorageError>>
    ELSE IF r = "lib" THEN <<LogCreated(Unwrap(res.val))>>
    ELSE <<>>
get_secret_log(r, id, res) ==
    IF res.tag = "Err" THEN <<LogStorageError>>
    ELSE IF r # "lib" THEN <<>>
    ELSE IF IsSome(res.val) THEN <<LogRead(Unwrap(res.val))>>
    ELSE <<LogNotFound(id)>>

\* The response and the events of the step that has just answered a request.
Answered == router \in Routers /\ last.op \in {"response", "store", "get"}
ResponseOf(l) ==
    IF l.op = "store" THEN create_secret(l.res)
    ELSE IF l.op = "get" THEN get_secret(l.id, l.res)
    ELSE l.response
LogOf(l) ==
    IF l.op = "store" THEN create_secret_log(router, l.res)
    ELSE IF l.op = "get" THEN get_secret_log(router, l.id, l.res)
    ELSE l.log

\* The buckets of the limiter when the clock of the model starts: those of a
\* router that has served nothing yet, and those of a router that has
\* admitted ApiLimit - 1 requests in the window it opened ApiWindow - 1
\* seconds ago (none of them a create that was stored).
ApiBuckets ==
    {<<>>,
     [identity \in {"global"} |->
        [window_start |-> 0 - (ApiWindow - 1), count |-> ApiLimit - 1]]}

InitApi ==
    /\ now = 0
    /\ backend \in Backends
    /\ inner = <<>>
    /\ innerLock = {}
    /\ redis = <<>>
    /\ connLock = [i \in Instances |-> {}]
    /\ pc = [t \in Tasks |-> "idle"]
    /\ cur = [t \in Tasks |-> Idle]
    /\ instOf = [t \in Tasks |-> 1]
    /\ stored = <<>>
    /\ reads = <<>>
    /\ last = NoCall
    /\ calls = 0
    /\ nextId = 1
    /\ fails = 0
    /\ router \in Routers
    /\ limit = ApiLimit
    /\ window = ApiWindow
    /\ buckets \in (IF router = "lib" THEN ApiBuckets ELSE {<<>>})
    /\ bucketsLock = {}
    /\ req = [t \in Tasks |-> NoRequest]
    /\ reqs = 0
    /\ admits = <<>>

\* Requests on their way to create_secret that have not called store_secret.
PendingCreates ==
    Cardinality({t \in Tasks : pc[t] \in {"rl_lock", "rl_cs", "handler"}
                               /\ req[t].kind = "create"})

\* A request arrives: the library router passes it to rate_limit_middleware,
\* the router of main.rs straight to its handler.
ApiRequest(t, r) ==
    /\ router \in Routers
    /\ pc[t] = "idle"
    /\ reqs < MaxRequests
    /\ r.kind = "create" => nextId + PendingCreates <= MaxSecrets
    /\ r.kind = "read" => r.id \in LookupIds
    /\ req' = [req EXCEPT ![t] =
                [k \in DOMAIN r \cup {"identity"} |->
                   IF k = "identity" THEN rate_limit_identity(r) ELSE r[k]]]
    /\ reqs' = reqs + 1
    /\ pc' = [pc EXCEPT ![t] = IF router = "lib" THEN "rl_lock" ELSE "handler"]
    /\ last' = NoCall
    /\ UNCHANGED <<now, storeVars, router, limit, window, buckets, bucketsLock, admits>>

\* Where rate_limit_middleware sends the request: next.run, or the 429.
MiddlewareNextAlwaysRuns(allowed) == "handler"
MiddlewareNext(allowed) == IF allowed THEN "handler" ELSE "idle"

\* rate_limit_middleware once check holds the lock: check answers, and the
\* request goes on to its handler or is answered 429.
Middleware(t) ==
    /\ router = "lib"
    /\ pc[t] = "rl_cs"
    /\ CheckStep(t)
    /\ LET allowed == CheckOutcome(buckets, req[t].identity, now).allowed
       IN /\ pc' = [pc EXCEPT ![t] = MiddlewareNext(allowed)]
          /\ req' = [req EXCEPT ![t] = IF allowed THEN [req[t] EXCEPT !.admitted = TRUE]
                                        ELSE NoRequest]
          /\ last' = IF allowed THEN CheckRecord(t)
                     ELSE [op |-> "response", req |-> req[t], response |-> TooManyRequests,
                           log |-> <<LogRateLimited(req[t].identity)>>]
    /\ UNCHANGED <<now, storeVars, router, limit, window, reqs, admits>>

\* health_check.
HandleHealth(t) ==
    /\ router \in Routers
    /\ pc[t] = "handler"
    /\ req[t].kind = "health"
    /\ pc' = [pc EXCEPT ![t] = "idle"]
    /\ last' = [op |-> "response", req |-> req[t], response |-> [status |-> 200, body |-> "ok"],
                log |-> <<>>]
    /\ req' = [req EXCEPT ![t] = NoRequest]
    /\ UNCHANGED <<now, storeVars, router, limit, window, buckets, bucketsLock, reqs, admits>>

\* create_secret returns BadRequest before it calls the store.
CreateRejected(t) ==
    /\ router \in Routers
    /\ pc[t] = "handler"
    /\ req[t].kind = "create"
    /\ create_secret_validate(req[t]) # "ok"
    /\ pc' = [pc EXCEPT ![t] = "idle"]
    /\ last' = [op |-> "response", req |-> req[t],
                response |-> ApiErrorResponse(create_secret_validate(req[t])), log |-> <<>>]
    /\ req' = [req EXCEPT ![t] = NoRequest]
    /\ UNCHANGED <<now, storeVars, router, limit, window, buckets, bucketsLock, reqs, admits>>

\* create_secret calls store_secret with the fields of the request.
CreateStore(t) ==
    /\ router \in Routers
    /\ req[t].kind = "create"
    /\ create_secret_validate(req[t]) = "ok"
    /\ \/ MemStoreBegin(t, req[t].payload, req[t].ttl_secs)
       \/ RedisStoreBegin(t, req[t].payload, req[t].ttl_secs)

\* get_secret calls get_and_delete_secret with the id of the path.
ReadGet(t) ==
    /\ router \in Routers
    /\ req[t].kind = "read"
    /\ \/ MemGetBegin(t, req[t].id)
       \/ RedisGetBegin(t, req[t].id)

NextApi ==
    \/ Tick
    \/ \E t \in Tasks, r \in Requests : ApiRequest(t, r)
    \/ \E t \in Tasks : RlLock(t)
    \/ \E t \in Tasks : Middleware(t)
    \/ \E t \in Tasks : HandleHealth(t)
    \/ \E t \in Tasks : CreateRejected(t)
    \/ \E t \in Tasks : CreateStore(t)
    \/ \E t \in Tasks : ReadGet(t)
    \/ \E t \in Tasks : MemStoreLock(t)
    \/ \E t \in Tasks : MemStoreInsert(t)
    \/ \E t \in Tasks : MemGetLock(t)
    \/ \E t \in Tasks : MemGetRemove(t)
    \/ \E t \in Tasks : RedisStoreLock(t)
    \/ \E t \in Tasks : RedisStoreSet(t)
    \/ \E t \in Tasks, ran \in BOOLEAN : RedisStoreSetFails(t, ran)
    \/ \E t \in Tasks : RedisGetLock(t)
    \/ \E t \in Tasks : RedisGetGet(t)
    \/ \E t \in Tasks : RedisGetGetFails(t)
    \/ \E t \in Tasks : RedisGetDel(t)
    \/ \E t \in Tasks, ran \in BOOLEAN : RedisGetDelFails(t, ran)

SpecApi == InitApi /\ [][NextApi]_vars

\* ------------------------------------------------------------------ several RedisSecretStore instances
\* RedisSecretStore::with_prefix called once per process against one Redis and
\* one key prefix: every instance has its own connection mutex, and the tasks
\* are spread over the instances.
InitMulti ==
    /\ now = 0
    /\ backend = "redis"
    /\ inner = <<>>
    /\ innerLock = {}
    /\ redis = <<>>
    /\ connLock = [i \in Instances |-> {}]
    /\ pc = [t \in Tasks |-> "idle"]
    /\ cur = [t \in Tasks |-> Idle]
    /\ instOf = [t \in Tasks |-> ((t - 1) % NumInstances) + 1]
    /\ stored = <<>>
    /\ reads = <<>>
    /\ last = NoCall
    /\ calls = 0
    /\ nextId = 1
    /\ fails = 0
    /\ router = "direct"
    /\ limit = 1
    /\ window = 1
    /\ buckets = <<>>
    /\ bucketsLock = {}
    /\ req = [t \in Tasks |-> NoRequest]
    /\ reqs = 0
    /\ admits = <<>>

NextMulti ==
    \/ Tick
    \/ \E t \in Tasks, p \in Payloads, ttl \in Ttls : RedisStoreBegin(t, p, ttl)
    \/ \E t \in Tasks : RedisStoreLock(t)
    \/ \E t \in Tasks : RedisStoreSet(t)
    \/ \E t \in Tasks, ran \in BOOLEAN : RedisStoreSetFails(t, ran)
    \/ \E t \in Tasks, id \in 1..MissingId : RedisGetBegin(t, id)
    \/ \E t \in Tasks : RedisGetLock(t)
    \/ \E t \in Tasks : RedisGetGet(t)
    \/ \E t \in Tasks : RedisGetGetFails(t)
    \/ \E t \in Tasks : RedisGetDel(t)
    \/ \E t \in Tasks, ran \in BOOLEAN : RedisGetDelFails(t, ran)
    \/ \E t \in Tasks : RedisPingBegin(t)
    \/ \E t \in Tasks : RedisPingLock(t)
    \/ \E t \in Tasks, res \in {Ok(None), Err} : RedisPingAnswer(t, res)

SpecMulti == InitMulti /\ [][NextMulti]_vars

\* ------------------------------------------------------------------ scheduling
\* The library router over the in-process store.
InitLive ==
    /\ InitApi
    /\ backend = "mem"
    /\ router = "lib"

\* The requests that reach the store: a create that passes validation, a read.
LiveRequests ==
    {r \in Requests : \/ r.kind = "read"
                      \/ r.kind = "create" /\ r.payload = <<"ct1", "iv1">>
                                           /\ r.ttl_secs = 1}

NextLive ==
    \/ Tick
    \/ \E t \in Tasks, r \in LiveRequests : ApiRequest(t, r)
    \/ \E t \in Tasks : RlLock(t)
    \/ \E t \in Tasks : Middleware(t)
    \/ \E t \in Tasks : CreateStore(t)
    \/ \E t \in Tasks : ReadGet(t)
    \/ \E t \in Tasks : MemStoreLock(t)
    \/ \E t \in Tasks : MemStoreInsert(t)
    \/ \E t \in Tasks : MemGetLock(t)
    \/ \E t \in Tasks : MemGetRemove(t)

\* The runtime polls every task that can run, and tokio's Mutex and RwLock
\* hand the lock to their waiters in order of arrival: a task that can go on
\* does, and a waiter is not passed over for ever.
Fairness ==
    \A t \in Tasks :
        /\ SF_vars(RlLock(t))
        /\ WF_vars(Middleware(t))
        /\ WF_vars(CreateStore(t))
        /\ WF_vars(ReadGet(t))
        /\ SF_vars(MemStoreLock(t))
        /\ WF_vars(MemStoreInsert(t))
        /\ SF_vars(MemGetLock(t))
        /\ WF_vars(MemGetRemove(t))

SpecLive == InitLive /\ [][NextLive]_vars /\ Fairness

\* ================================================================== claims
ReturnedSecret(res) == res.tag = "Ok" /\ IsSome(res.val)
ReturnedAbsent(res) == res.tag = "Ok" /\ ~IsSome(res.val)
\* Every task calls through the same RedisSecretStore instance.
SharedInstance == \A t, u \in Tasks : instOf[t] = instOf[u]
\* A get_and_delete_secret call on a stored id has just returned.
GetReturned == last.op = "get" /\ last.id \in StoredIds

\* C1: in-process backend: when N >= 2 get_and_delete_secret calls on one stored
\* secret have all returned, each decided before the secret expired, exactly one
\* of them returned the secret and the other N-1 returned absent.
C1_RaceSafetyInMemory ==
    backend = "mem" =>
        \A id \in StoredIds :
            (Getting(id) = {} /\ ReadsOf(id).returned >= 2 /\ ~ReadsOf(id).late)
                => /\ ReadsOf(id).somes = 1
                   /\ ReadsOf(id).oks = ReadsOf(id).returned

\* Two overlapping calls on one unexpired secret have both returned.
C1_Witness ==
    /\ backend = "mem"
    /\ \E id \in StoredIds :
        /\ Getting(id) = {} /\ ReadsOf(id).raced /\ ~ReadsOf(id).late
        /\ ReadsOf(id).returned >= 2 /\ ReadsOf(id).somes = 1

\* C2: Redis backend, one shared store instance: at most one
\* get_and_delete_secret call on a key returns the secret, and exactly one does
\* once the calls on an unexpired stored key have returned with no command failed.
C2_RaceSafetyRedisShared ==
    (backend = "redis" /\ SharedInstance) =>
        \A id \in DOMAIN reads :
            /\ reads[id].somes <= 1
            /\ (id \in StoredIds /\ Getting(id) = {} /\ reads[id].returned >= 1
                /\ fails = 0 /\ ~reads[id].late) => reads[id].somes = 1

C2_Witness ==
    /\ backend = "redis" /\ SharedInstance /\ fails = 0
    /\ \E id \in StoredIds :
        /\ Getting(id) = {} /\ ReadsOf(id).raced /\ ~ReadsOf(id).late
        /\ ReadsOf(id).returned >= 2 /\ ReadsOf(id).somes = 1

\* C3: a get_and_delete_secret call that began after a call on the same id had
\* returned the secret never returns the secret: it returns absent (or, when a
\* Redis command has failed, the Backend error).
C3_OneTimeRead ==
    (GetReturned /\ last.seenSome) =>
        /\ ~ReturnedSecret(last.res)
        /\ (backend = "mem" \/ fails = 0) => ReturnedAbsent(last.res)

\* A second read, with other calls on other ids made in between.
C3_Witness ==
    /\ GetReturned /\ last.seenSome /\ ReturnedAbsent(last.res)
    /\ Cardinality(StoredIds) >= 2

\* C4: in-process backend: a lookup decided at now >= created_at + ttl_secs
\* returns absent.
C4_TtlEnforcementInMemory ==
    (backend = "mem" /\ GetReturned /\ last.at >= expires_at(stored[last.id]))
        => ReturnedAbsent(last.res)

\* The first lookup of a secret, exactly at created_at + ttl_secs.
C4_Witness ==
    /\ backend = "mem" /\ GetReturned /\ last.returnedBefore = 0
    /\ last.at = expires_at(stored[last.id])
    /\ ReturnedAbsent(last.res)

\* C5: Redis backend: a lookup decided at now >= created_at + ttl_secs returns
\* absent.
C5_TtlEnforcementRedis ==
    (backend = "redis" /\ GetReturned /\ last.res.tag = "Ok"
     /\ last.at >= expires_at(stored[last.id]))
        => ReturnedAbsent(last.res)

\* C6: a record returned by get_and_delete_secret carries the id, ciphertext,
\* iv and ttl_secs of the record store_secret returned for that id.
C6_RoundTrip ==
    (last.op = "get" /\ ReturnedSecret(last.res)) =>
        /\ last.id \in StoredIds
        /\ LET got == Unwrap(last.res.val)
               put == stored[last.id]
           IN /\ got.id = put.id /\ got.id = last.id
              /\ got.ciphertext = put.ciphertext
              /\ got.iv = put.iv
              /\ got.ttl_secs = put.ttl_secs

\* A record read back through the serialized form, with two secrets of
\* different payloads in play.
C6_Witness ==
    /\ backend = "redis" /\ last.op = "get" /\ ReturnedSecret(last.res)
    /\ Cardinality(StoredIds) = 2
    /\ \E a, b \in StoredIds : stored[a].ciphertext # stored[b].ciphertext

\* C7: with no backend failure, the first get_and_delete_secret call to return
\* for a stored id, decided before created_at + ttl_secs, returns the secret.
C7_Retrievable ==
    (GetReturned /\ fails = 0 /\ last.returnedBefore = 0
     /\ last.at < expires_at(stored[last.id]))
        => ReturnedSecret(last.res)

\* The secret is returned one tick before expiry, after calls on other ids.
C7_Witness ==
    /\ GetReturned /\ fails = 0 /\ last.returnedBefore = 0
    /\ last.at + 1 = expires_at(stored[last.id])
    /\ ReturnedSecret(last.res)
    /\ \E other \in DOMAIN reads : other # last.id

\* C8: a get_and_delete_secret call that began after a call on the same id had
\* returned the secret or absent, or after the secret expired
\* (now >= created_at + ttl_secs), does not return the secret.
C8_PermanentlyUnretrievable ==
    (GetReturned /\ (last.seenOk \/ last.seenExpired)) => ~ReturnedSecret(last.res)

\* C9: with no backend failure, a lookup of an id that never existed, of an id
\* already read, and of an id whose secret expired in the backend all return
\* Ok(None), and get_secret renders each as 404 "secret not found".
NeverExisted == last.id \notin StoredIds
AlreadyRead == last.seenSome
BackendExpired ==
    /\ last.id \in StoredIds
    /\ IF backend = "mem" THEN is_expired_at(stored[last.id], last.at)
       ELSE /\ make_key(last.id) \in DOMAIN redis
            /\ last.at >= redis[make_key(last.id)].expire_at
C9_AbsentCollapse ==
    (last.op = "get" /\ fails = 0 /\ (NeverExisted \/ AlreadyRead \/ BackendExpired)) =>
        /\ last.res = Ok(None)
        /\ get_secret(last.id, last.res) = [status |-> 404, error |-> "secret not found"]

\* An expired, never-read secret is looked up and reported absent.
C9_Witness ==
    /\ last.op = "get" /\ fails = 0 /\ BackendExpired /\ ~AlreadyRead
    /\ last.returnedBefore = 0 /\ last.res = Ok(None)

\* Two secrets made by the same store_secret call at the same clock reading.
SameCall(a, b) ==
    /\ stored[a].ciphertext = stored[b].ciphertext
    /\ stored[a].iv = stored[b].iv
    /\ stored[a].ttl_secs = stored[b].ttl_secs
    /\ stored[a].created_at = stored[b].created_at

\* C10: with no failed command, when the same store_secret call was made at
\* the same clock reading on the in-process store and on the Redis store, and
\* the one lookup of each secret was decided on the same side of
\* created_at + ttl_secs, both lookups return the secret or both report absent.
C10_BackendEquivalence ==
    \A a \in StoredIds, b \in StoredIds :
        (/\ backend = "both"
         /\ fails = 0
         /\ SameCall(a, b)
         /\ ReadsOf(a).via = "mem" /\ ReadsOf(a).returned = 1
         /\ ReadsOf(b).via = "redis" /\ ReadsOf(b).returned = 1
         /\ ReadsOf(a).late = ReadsOf(b).late)
            => ReadsOf(a).somes = ReadsOf(b).somes

\* ------------------------------------------------------------------ rate limiter
CheckReturned == last.op = "check"

\* C11: on a fresh limiter with max >= 1, a check(identity) made no more than
\* `window` after the identity's first check returns true exactly when it is
\* one of the first max checks of that identity: the first max are allowed,
\* every further one in that window is denied.
C11_AllowThenDeny ==
    (CheckReturned /\ last.at - last.first <= window)
        => (last.allowed <=> last.nth <= limit)

\* The check after the first max ones, still inside the first window, denied.
C11_Witness ==
    /\ CheckReturned
    /\ last.at - last.first <= window
    /\ last.nth = limit + 1
    /\ ~last.allowed

\* C12: check resets the bucket exactly when strictly more than `window` has
\* elapsed since window_start: then the bucket restarts at now with the
\* triggering check as its first counted one and the check returns true, even
\* if the bucket was exhausted; otherwise (also at exactly window_start +
\* window) window_start stays and the check is judged against the old count.
C12_WindowReset ==
    CheckReturned =>
        LET elapsed == last.at - last.pre.window_start
        IN /\ elapsed > window =>
                /\ last.post = [window_start |-> last.at, count |-> 1]
                /\ last.allowed
           /\ elapsed <= window =>
                /\ last.post.window_start = last.pre.window_start
                /\ last.allowed <=> last.pre.count < limit
                /\ last.post.count = last.pre.count + (IF last.allowed THEN 1 ELSE 0)

\* An exhausted bucket whose window has elapsed is reset and the check allowed.
C12_Witness ==
    /\ CheckReturned
    /\ last.at - last.pre.window_start > window
    /\ last.pre.count >= limit
    /\ last.allowed
    /\ last.post = [window_start |-> last.at, count |-> 1]

\* Checks of `identity` that returned true at the times a..b.
RECURSIVE AllowedBetween(_, _, _)
AllowedBetween(identity, a, b) ==
    IF a > b THEN 0
    ELSE (IF a \in RlTimes THEN AdmitsOf(identity).at[a] ELSE 0)
         + AllowedBetween(identity, a + 1, b)

\* C13: for every identity and every interval of length at most `window`,
\* the number of check(identity) calls that returned true inside the interval
\* is at most 2 x max_requests_per_window.
C13_BurstBound ==
    \A identity \in Identities, a \in RlTimes :
        AllowedBetween(identity, a, a + window) <= 2 * limit

\* A burst across a window boundary: more than max checks of one identity
\* allowed inside one interval of length `window`.
C13_Witness ==
    \E identity \in Identities, a \in RlTimes :
        /\ AllowedBetween(identity, a, a + window) > limit
        /\ identity \in DOMAIN buckets
        /\ buckets[identity].window_start > a

\* ------------------------------------------------------------------ the API
\* The tasks inside a store_secret or get_and_delete_secret call.
InStoreCall(t) == cur[t].op \in {"store", "get"}

\* C14: in every router the repository builds, a store_secret or
\* get_and_delete_secret call made for a request runs only after
\* RateLimiter.check has returned true for that request.
C14_AdmissionOrdering ==
    \A t \in Tasks : InStoreCall(t) => req[t].admitted

\* The step in which check returns false to rate_limit_middleware for task t.
Denied(t) ==
    /\ router = "lib"
    /\ pc[t] = "rl_cs"
    /\ pc'[t] # "rl_cs"
    /\ ~CheckOutcome(buckets, req[t].identity, now).allowed

\* C15: when check returns false the middleware answers 429 with the error
\* 'too many requests' and does not run the handler, so no store call is
\* begun and the contents of the store are unchanged.
C15_DeniedNoEffect ==
    [][\A t \in Tasks :
         Denied(t) =>
            /\ pc'[t] = "idle"
            /\ last'.op = "response"
            /\ last'.response = [status |-> 429, error |-> "too many requests"]
            /\ inner' = inner
            /\ redis' = redis
            /\ cur' = cur]_vars

\* A GET of a stored, unread, unexpired secret has just been answered 429, and
\* the secret is still in the store.
C15_Witness ==
    /\ last.op = "response"
    /\ last.response.status = 429
    /\ last.req.kind = "read"
    /\ last.req.id \in StoredIds
    /\ ReadsOf(last.req.id).returned = 0
    /\ ~is_expired_at(stored[last.req.id], now)
    /\ \/ last.req.id \in DOMAIN inner
       \/ RedisLive(make_key(last.req.id))

\* ------------------------------------------------------------------ failures
\* C16: on either backend a store_secret call either returns the Secret, and
\* the record is then in storage under its id, or returns a Backend error, and
\* nothing is stored under the generated id.
C16_StoreAllOrNothing ==
    last.op = "store" =>
        IF last.res.tag = "Ok"
        THEN IF backend = "mem"
             THEN last.id \in DOMAIN inner /\ inner[last.id] = Unwrap(last.res.val)
             ELSE RedisGet(make_key(last.id)) = Some(ToJson(Unwrap(last.res.val)))
        ELSE last.id \notin DOMAIN inner /\ make_key(last.id) \notin DOMAIN redis

\* The step in which the DEL of task t fails after its GET has read the key.
DeleteFailed(t) == pc[t] = "r_get_del" /\ pc'[t] = "idle" /\ fails' = fails + 1

\* C17: when get_and_delete_secret on the Redis backend has read the key and
\* the DEL that follows fails, the call still returns the record rather than
\* an error, and the key stays in the backend.
C17_FailedDeleteStillReturns ==
    [][\A t \in Tasks :
         DeleteFailed(t) =>
            /\ last'.op = "get"
            /\ ReturnedSecret(last'.res)
            /\ cur[t].key \in DOMAIN redis']_vars

\* The step in which the in-process get_and_delete_secret of task t decides.
MemGetDecides(t) == pc[t] = "m_get_cs" /\ pc'[t] = "idle"

\* The step removes the entry of the id and the call returns it.
RemovesAndReturns(t) ==
    /\ cur[t].id \in DOMAIN inner
    /\ inner' = [k \in DOMAIN inner \ {cur[t].id} |-> inner[k]]
    /\ ReturnedSecret(last'.res)
    /\ Unwrap(last'.res.val).id = cur[t].id

\* The step removes an expired entry and the call reports absent.
RemovesExpired(t) ==
    /\ cur[t].id \in DOMAIN inner
    /\ now >= inner[cur[t].id].created_at + inner[cur[t].id].ttl_secs
    /\ inner' = [k \in DOMAIN inner \ {cur[t].id} |-> inner[k]]
    /\ ReturnedAbsent(last'.res)

\* C18 as stated: every in-process get_and_delete_secret call either removes
\* the entry and returns the secret, or leaves the map exactly as it was.
C18_NoPartialState ==
    [][\A t \in Tasks :
         MemGetDecides(t) => (RemovesAndReturns(t) \/ inner' = inner)]_vars

\* C18, amended: every in-process get_and_delete_secret call either removes an
\* unexpired entry and returns the secret, or removes an expired entry and
\* reports absent, or finds no entry, reports absent and leaves the map
\* exactly as it was.
C18_RemoveThenInspect ==
    [][\A t \in Tasks :
         MemGetDecides(t) =>
            \/ /\ RemovesAndReturns(t)
               /\ now < inner[cur[t].id].created_at + inner[cur[t].id].ttl_secs
            \/ RemovesExpired(t)
            \/ /\ cur[t].id \notin DOMAIN inner
               /\ inner' = inner
               /\ ReturnedAbsent(last'.res)]_vars

\* The first lookup of a stored secret came after its expiry: the call
\* reported absent and the entry is gone from the map.
C18_Witness ==
    /\ backend = "mem"
    /\ last.op = "get"
    /\ last.id \in StoredIds
    /\ last.returnedBefore = 0
    /\ last.at >= expires_at(stored[last.id])
    /\ ReturnedAbsent(last.res)
    /\ last.id \notin DOMAIN inner

\* ------------------------------------------------------------------ ttl range
TtlInRange(secret) == 1 <= secret.ttl_secs /\ secret.ttl_secs <= TTL_MAX

\* C19: every Secret a store holds, and every Secret store_secret is given or
\* returns, has 1 <= ttl_secs <= 86400; create_secret answers a request with
\* ttl_secs = 0 or ttl_secs > 86400 with a bad request, and no store call is
\* made for it.
C19_TtlRange ==
    /\ \A id \in DOMAIN inner : TtlInRange(inner[id])
    /\ \A key \in DOMAIN redis : TtlInRange(FromJson(redis[key].json))
    /\ \A id \in StoredIds : TtlInRange(stored[id])
    /\ \A t \in Tasks : cur[t].op = "store" => TtlInRange(cur[t].secret)
    /\ (last.op = "store" /\ last.res.tag = "Ok") => TtlInRange(Unwrap(last.res.val))
    /\ \A t \in Tasks :
         (req[t].kind = "create" /\ (req[t].ttl_secs = 0 \/ req[t].ttl_secs > TTL_MAX))
            => ~InStoreCall(t)
    /\ (/\ last.op = "response"
        /\ last.req.kind = "create"
        /\ last.response.status # 429
        /\ (last.req.ttl_secs = 0 \/ last.req.ttl_secs > TTL_MAX))
            => last.response.status = 400

\* A request with ttl_secs = 86401 has just been answered 400 while a secret
\* with ttl_secs = 86400 is stored.
C19_Witness ==
    /\ last.op = "response"
    /\ last.req.kind = "create"
    /\ last.req.ttl_secs = TTL_MAX + 1
    /\ last.response = [status |-> 400,
                        error |-> "ttl_secs must be between 1 and 86400 seconds"]
    /\ \E id \in StoredIds : stored[id].ttl_secs = TTL_MAX

\* ------------------------------------------------------------------ logs
\* The same secret with another ciphertext and iv.
WithPayload(secret, p) == [secret EXCEPT !.ciphertext = p[1], !.iv = p[2]]

\* The events the answering step would have emitted had the secret it is about
\* carried payload p.
LogWithPayload(l, p) ==
    IF l.op = "store" /\ l.res.tag = "Ok"
    THEN create_secret_log(router, Ok(Some(WithPayload(Unwrap(l.res.val), p))))
    ELSE IF l.op = "get" /\ ReturnedSecret(l.res)
    THEN get_secret_log(router, l.id, Ok(Some(WithPayload(Unwrap(l.res.val), p))))
    ELSE LogOf(l)

SecretFieldsNotLogged == {"ciphertext", "iv", "created_at", "read_at"}

\* C20: the events a request emits do not depend on the ciphertext or iv of
\* the secret it creates or reads (with any other ciphertext and iv the same
\* events are emitted), and of a secret's fields the events carry only its id
\* and its ttl_secs.
C20_LogConfidentiality ==
    Answered =>
        /\ \A p \in Payloads : LogWithPayload(last, p) = LogOf(last)
        /\ \A i \in DOMAIN LogOf(last) :
             /\ DOMAIN LogOf(last)[i] \cap SecretFieldsNotLogged = {}
             /\ "secret_id" \in DOMAIN LogOf(last)[i] => LogOf(last)[i].secret_id = last.id
             /\ "ttl_secs" \in DOMAIN LogOf(last)[i]
                  => LogOf(last)[i].ttl_secs = Unwrap(last.res.val).ttl_secs

\* Two secrets that differ in ciphertext and iv only have been created through
\* the library router; the event of the second names its id and ttl_secs.
C20_Witness ==
    /\ router = "lib"
    /\ last.op = "store"
    /\ last.res.tag = "Ok"
    /\ LogOf(last) = <<[level |-> "INFO", msg |-> "created secret", secret_id |-> last.id,
                        ttl_secs |-> Unwrap(last.res.val).ttl_secs]>>
    /\ \E id \in StoredIds :
         /\ id # last.id
         /\ stored[id].ciphertext # Unwrap(last.res.val).ciphertext
         /\ stored[id].iv # Unwrap(last.res.val).iv
         /\ stored[id].ttl_secs = Unwrap(last.res.val).ttl_secs

\* ------------------------------------------------------------------ ids
\* The step in which the store_secret call of task t writes and returns.
StoreReturns(t) == pc[t] \in {"m_store_cs", "r_store_set"} /\ pc'[t] = "idle"

C22_RaceSafetyRedisInstances ==
    (backend = "redis" /\ ~SharedInstance) =>
        \A id \in DOMAIN reads : reads[id].somes <= 1

\* ------------------------------------------------------------------ expired entries
\* C23: an in-process get_and_delete_secret(id) decided at now >= expires_at
\* returns absent and leaves no entry for the id, and the entry is in the map
\* in no later state.
C23_ExpiredLookupRemoves ==
    backend = "mem" =>
        /\ (last.op = "get" /\ last.id \in StoredIds
            /\ last.at >= expires_at(stored[last.id]))
               => (ReturnedAbsent(last.res) /\ last.id \notin DOMAIN inner)
        /\ \A id \in DOMAIN reads : reads[id].late => id \notin DOMAIN inner

\* After the lookup that found the entry expired, a second lookup of the id
\* has returned: both reported absent and the map has no entry for the id.
C23_Witness ==
    /\ backend = "mem"
    /\ last.op = "get"
    /\ last.id \in StoredIds
    /\ last.seenExpired
    /\ last.returnedBefore = 1
    /\ ReadsOf(last.id).late
    /\ ReadsOf(last.id).somes = 0
    /\ ReturnedAbsent(last.res)
    /\ last.id \notin DOMAIN inner

\* ------------------------------------------------------------------ buckets
\* C24: every bucket has 0 <= count <= max_requests_per_window, and a check
\* that returns false leaves the bucket of its identity as it was.
C24_CounterBound ==
    /\ \A identity \in DOMAIN buckets :
         0 <= buckets[identity].count /\ buckets[identity].count <= limit
    /\ (CheckReturned /\ ~last.allowed) =>
         /\ last.had
         /\ last.post = last.pre
         /\ buckets[last.identity] = last.pre

\* A check has just been denied on a full bucket, whose count is still max.
C24_Witness ==
    /\ CheckReturned
    /\ ~last.allowed
    /\ last.pre.count = limit
    /\ buckets[last.identity].count = limit

Min(a, b) == IF a <= b THEN a ELSE b

\* All the checks of the identity so far were in progress together on a fresh
\* bucket, and all have returned within one window.
ConcurrentBatchDone(identity) ==
    /\ AdmitsOf(identity).n >= 1
    /\ AdmitsOf(identity).n = AdmitsOf(identity).batch
    /\ Checking(identity) = {}
    /\ now - AdmitsOf(identity).first <= window

\* C25: when N check(identity) calls run concurrently against a fresh bucket
\* within one window, exactly min(N, max_requests_per_window) of them return
\* true, under every interleaving.
C25_ConcurrentAdmission ==
    \A identity \in Identities :
        ConcurrentBatchDone(identity) =>
            AllowedBetween(identity, 0, RlMaxTime)
                = Min(AdmitsOf(identity).batch, limit)

\* Two concurrent checks of one identity with max = 1: one was allowed.
C25_Witness ==
    \E identity \in Identities :
        /\ ConcurrentBatchDone(identity)
        /\ AdmitsOf(identity).batch = NumTasks
        /\ limit < NumTasks
        /\ AllowedBetween(identity, 0, RlMaxTime) = limit

\* The step in which the check call of task t runs its body and returns.
CheckDecides(t) == pc[t] = "rl_cs" /\ pc'[t] # "rl_cs"

\* C26: check(a) creates or modifies only the bucket of a: the bucket of every
\* other identity b is as before, and a check(b) at any time answers and
\* leaves what it would have without the check(a).
C26_IdentityIsolation ==
    [][\A t \in Tasks :
         CheckDecides(t) =>
            \A b \in Identities \ {req[t].identity} :
               /\ b \in DOMAIN buckets' <=> b \in DOMAIN buckets
               /\ b \in DOMAIN buckets => buckets'[b] = buckets[b]
               /\ \A at \in RlTimes :
                    CheckOutcome(buckets', b, at) = CheckOutcome(buckets, b, at)]_vars

\* A check of one identity has just been denied while another identity's
\* bucket still has room.
C26_Witness ==
    /\ CheckReturned
    /\ ~last.allowed
    /\ \E b \in Identities \ {last.identity} :
         /\ b \in DOMAIN buckets
         /\ buckets[b].count >= 1
         /\ buckets[b].count < limit

\* ------------------------------------------------------------------ locks
\* The task holds a SecretStore lock.
HoldsStoreLock(t) == t \in innerLock \/ \E i \in Instances : t \in connLock[i]

\* C27: the buckets lock is held only inside check, which returns before the
\* handler runs: a task that holds it is in the body of check and neither
\* holds nor waits for a SecretStore lock nor is inside a store call.
C27_LimiterLockDiscipline ==
    \A t \in Tasks :
        /\ t \in bucketsLock =>
             /\ pc[t] = "rl_cs"
             /\ ~InStoreCall(t)
             /\ ~HoldsStoreLock(t)
        /\ (pc[t] = "handler" \/ InStoreCall(t)) => t \notin bucketsLock

\* One task is in the body of check while the other, admitted before, holds
\* the lock of the store.
C27_Witness ==
    \E t \in Tasks, u \in Tasks :
        /\ t # u
        /\ t \in bucketsLock
        /\ pc[t] = "rl_cs"
        /\ InStoreCall(u)
        /\ req[u].admitted
        /\ HoldsStoreLock(u)

\* C28: a RedisSecretStore holds its connection lock while a backend command
\* is in flight only inside get_and_delete_secret; store_secret does not hold
\* the lock while its SET EX is in flight, nor ping while its PING is.
C28_RedisLockScope ==
    \A t \in Tasks :
        (backend = "redis" /\ t \in connLock[instOf[t]])
            => pc[t] \in {"r_get_get", "r_get_del"}

\* ------------------------------------------------------------------ read_at
\* C30: every record held in storage has read_at = None, and so has the record
\* store_secret returns; a record returned by get_and_delete_secret has read_at
\* set to the time of that call, which on the in-process backend is earlier
\* than created_at + ttl_secs; the secret is returned, and so stamped, at most
\* once.
C30_ReadAtDiscipline ==
    /\ \A id \in DOMAIN inner : inner[id].read_at = None
    /\ \A key \in DOMAIN redis : FromJson(redis[key].json).read_at = None
    /\ (last.op = "store" /\ last.res.tag = "Ok") => Unwrap(last.res.val).read_at = None
    /\ (last.op = "get" /\ ReturnedSecret(last.res)) =>
         /\ Unwrap(last.res.val).read_at = Some(last.at)
         /\ backend = "mem" =>
              last.at < Unwrap(last.res.val).created_at + Unwrap(last.res.val).ttl_secs
    /\ \A id \in DOMAIN reads : reads[id].somes <= 1

\* ------------------------------------------------------------------ progress
WaitsForLock(t) == pc[t] \in {"rl_lock", "m_store_lock", "m_get_lock"}
HoldsLock(t) == t \in bucketsLock \/ t \in innerLock

\* C29: under fair scheduling every check, store_secret and
\* get_and_delete_secret call on the in-process backend obtains its lock and
\* every request is answered; a lock is held only inside the critical section
\* of the call that took it, so it is released on every path by which the call
\* returns.
C29_Progress ==
    /\ \A t \in Tasks : WaitsForLock(t) ~> HoldsLock(t)
    /\ \A t \in Tasks : (pc[t] # "idle") ~> (pc[t] = "idle" /\ ~HoldsLock(t))
    /\ [](\A t \in Tasks :
            /\ t \in bucketsLock => pc[t] = "rl_cs"
            /\ t \in innerLock => pc[t] \in {"m_store_cs", "m_get_cs"})

\* One task holds the lock of the map while the other waits for it.
C29_Witness ==
    \E t \in Tasks, u \in Tasks :
        /\ t \in innerLock
        /\ pc[u] \in {"m_store_lock", "m_get_lock"}

============================================================================
